---- MODULE Spec2Model ----
(***************************************************************************)
(* A model of cmd/extract_container_image.ts: the run of                   *)
(* extractContainerImage from the pull to the return, with the manifest    *)
(* reader, the layer parser, the whiteout digest (UpperLayerDigest), the   *)
(* extractor (extractLayers) and the scoped release of src/deferred.ts.    *)
(*                                                                         *)
(* A string is a sequence of one-character strings, so that the string     *)
(* operations the code relies on (startsWith, substring, Path.normalize,   *)
(* Path.join, Path.parse, Path.dirname, Path.common) are computed          *)
(* character by character, as the POSIX flavour of the Deno standard       *)
(* library computes them.                                                  *)
(***************************************************************************)
EXTENDS Integers, Sequences, FiniteSets, TLC

(***************************************************************************)
(* Strings                                                                 *)
(***************************************************************************)
SEP == "/"

Empty == <<>>

Dot == <<".">>

DotDot == <<".", ".">>

Slash == <<"/">>

\* String.prototype.startsWith
StartsWith(s, p) == Len(p) <= Len(s) /\ SubSeq(s, 1, Len(p)) = p

\* String.prototype.substring(n): the string without its first n characters
Substring(s, n) == SubSeq(s, n + 1, Len(s))

\* String.prototype.split(SEP)
RECURSIVE Split(_)
Split(s) ==
  IF \A i \in 1..Len(s) : s[i] # SEP
  THEN <<s>>
  ELSE LET i == CHOOSE k \in 1..Len(s) :
                  s[k] = SEP /\ \A j \in 1..(k - 1) : s[j] # SEP
       IN  <<SubSeq(s, 1, i - 1)>> \o Split(SubSeq(s, i + 1, Len(s)))

\* Array.prototype.join(SEP)
RECURSIVE JoinSegs(_)
JoinSegs(parts) ==
  IF parts = <<>> THEN Empty
  ELSE IF Len(parts) = 1 THEN parts[1]
  ELSE parts[1] \o Slash \o JoinSegs(Tail(parts))

(***************************************************************************)
(* Path (POSIX)                                                            *)
(***************************************************************************)
\* normalizeString: "" and "." segments vanish, ".." removes the segment
\* before it, and is kept only where the path may climb above its start.
RECURSIVE NormalizeString(_, _, _)
NormalizeString(segs, res, allowAboveRoot) ==
  IF segs = <<>> THEN res
  ELSE LET h == Head(segs)
           t == Tail(segs)
       IN  IF h = Empty \/ h = Dot
           THEN NormalizeString(t, res, allowAboveRoot)
           ELSE IF h = DotDot
           THEN IF res # <<>> /\ res[Len(res)] # DotDot
                THEN NormalizeString(t, SubSeq(res, 1, Len(res) - 1), allowAboveRoot)
                ELSE IF allowAboveRoot
                THEN NormalizeString(t, Append(res, DotDot), allowAboveRoot)
                ELSE NormalizeString(t, res, allowAboveRoot)
           ELSE NormalizeString(t, Append(res, h), allowAboveRoot)

\* Path.normalize
Normalize(path) ==
  IF path = Empty THEN Dot
  ELSE LET isAbsolute == path[1] = SEP
           trailingSeparator == path[Len(path)] = SEP
           p1 == JoinSegs(NormalizeString(Split(path), <<>>, ~isAbsolute))
           p2 == IF p1 = Empty /\ ~isAbsolute THEN Dot ELSE p1
           p3 == IF p2 # Empty /\ trailingSeparator THEN p2 \o Slash ELSE p2
       IN  IF isAbsolute THEN Slash \o p3 ELSE p3

\* Path.join of two strings
Join(a, b) ==
  IF a = Empty /\ b = Empty THEN Dot
  ELSE IF a = Empty THEN Normalize(b)
  ELSE IF b = Empty THEN Normalize(a)
  ELSE Normalize(a \o Slash \o b)

\* Path.isAbsolute
IsAbsolute(path) == Len(path) > 0 /\ path[1] = SEP

\* The end of the last segment: the separators that end the string are skipped.
LastNonSep(path) ==
  IF \A i \in 1..Len(path) : path[i] = SEP THEN 0
  ELSE CHOOSE i \in 1..Len(path) :
         path[i] # SEP /\ \A j \in (i + 1)..Len(path) : path[j] = SEP

\* The separator that starts the last segment (never the first character), or 0.
LastSepBefore(path, end) ==
  IF \A i \in 2..(end - 1) : path[i] # SEP THEN 0
  ELSE CHOOSE i \in 2..(end - 1) :
         path[i] = SEP /\ \A j \in (i + 1)..(end - 1) : path[j] # SEP

\* Path.parse: the dir and base of the result
Parse(path) ==
  LET end == LastNonSep(path)
      k == LastSepBefore(path, end)
  IN  IF k > 0
      THEN [dir |-> SubSeq(path, 1, k - 1), base |-> SubSeq(path, k + 1, end)]
      ELSE [dir |-> IF IsAbsolute(path) THEN Slash ELSE Empty,
            base |-> SubSeq(path, IF IsAbsolute(path) THEN 2 ELSE 1, end)]

\* Path.dirname
Dirname(path) ==
  LET end == LastNonSep(path)
      k == LastSepBefore(path, end)
  IN  IF k > 0 THEN SubSeq(path, 1, k - 1)
      ELSE IF IsAbsolute(path) THEN Slash ELSE Dot

(***************************************************************************)
(* Inputs: the saved-image archive, the manifest's layer list and the      *)
(* destination directory                                                   *)
(***************************************************************************)
\* The longest layer list of a manifest record.
MaxLayers == 3

\* Characters to paths, to keep the archive below readable.
P_d == <<"d", "/">>

P_d_f == <<"d", "/", "f">>

P_d_k == <<"d", "/", "k">>

P_d_n == <<"d", "/", "n">>

P_d_s == <<"d", "/", "s", "/">>

P_d_s_g == <<"d", "/", "s", "/", "g">>

P_d_s_t == <<"d", "/", "s", "/", "t", "/">>

P_d_s_t_h == <<"d", "/", "s", "/", "t", "/", "h">>

P_d_wh_f == <<"d", "/", ".", "w", "h", ".", "f">>

P_d_wh_s == <<"d", "/", ".", "w", "h", ".", "s">>

P_d_opq == <<"d", "/", ".", "w", "h", ".", ".", "w", "h", ".", ".", "o", "p", "q">>

P_a == <<"a", "/">>

P_a_b == <<"a", "/", "b", "/">>

P_a_b_l == <<"a", "/", "b", "/", "l">>

P_esc == <<".", ".", "/", "o", "x", "/", "f">>

\* A nested (layer archive) entry as Untar yields it. linkName is present on
\* symbolic links only; content names the bytes of the entry's stream.
NoLink == <<"undefined">>

Nested(type, fileName, linkName, content) ==
  [type |-> type, fileName |-> fileName, linkName |-> linkName,
   fileSize |-> content, content |-> content]

DirE(path) == Nested("directory", path, NoLink, 0)

FileE(path, content) == Nested("file", path, NoLink, content)

LinkE(path, target) == Nested("symlink", path, target, 0)

\* The layer archives of the saved image, by outer entry name.
LayerArchive(name) ==
  CASE name = "A" -> \* a base layer
         <<DirE(P_d), FileE(P_d_f, 1), DirE(P_d_s), FileE(P_d_s_g, 1),
           DirE(P_d_s_t), FileE(P_d_s_t_h, 1),
           Nested("character-device", P_d_n, NoLink, 0)>>
    [] name = "B" -> \* rewrites d/f, adds an absolute link
         <<DirE(P_d), FileE(P_d_f, 2), DirE(P_d_s),
           LinkE(P_d_k, <<"/", "d", "/", "f">>)>>
    [] name = "C" -> \* deletes d/f and d/s
         <<DirE(P_d), FileE(P_d_wh_f, 0), FileE(P_d_wh_s, 0)>>
    [] name = "O" -> \* empties d
         <<DirE(P_d), FileE(P_d_opq, 0)>>
    [] name = "L" -> \* replaces d/f by a link, adds a relative link
         <<DirE(P_d), LinkE(P_d_f, <<"s", "/", "g">>), DirE(P_a), DirE(P_a_b),
           LinkE(P_a_b_l, <<".", ".", "/", "e", "/", "p">>)>>
    [] name = "X" -> \* a hostile layer
         <<FileE(P_esc, 3), DirE(P_a), DirE(P_a_b),
           LinkE(P_a_b_l, <<".", ".", "/", ".", ".", "/", ".", ".", "/", "e", "/", "p">>)>>
    [] OTHER -> <<>>

\* An outer archive entry.
Outer(type, fileName) == [type |-> type, fileName |-> fileName]

\* The outer archive, in the order the image was saved: the manifest, the
\* layer archives, and a directory entry (not an archive) named M.
TarForward ==
  <<Outer("file", "manifest.json"), Outer("file", "A"), Outer("file", "B"),
    Outer("file", "C"), Outer("file", "O"), Outer("file", "L"),
    Outer("file", "X"), Outer("directory", "M")>>

Reverse(s) == [i \in 1..Len(s) |-> s[Len(s) + 1 - i]]

TarFiles == {TarForward, Reverse(TarForward)}

\* The names a manifest record may list.
LayerNames == {"A", "B", "C", "O", "L", "X", "M"}

\* The layer lists of a manifest record: oldest first.
LayerLists == UNION {[1..n -> LayerNames] : n \in 1..MaxLayers}

\* The destination directories.
Directories == {<<"/", "o">>, <<"o">>}

\* A saved archive that has a directory where its manifest should be.
TarNoManifest == <<Outer("directory", "manifest.json"), Outer("file", "A")>>

\* What docker image save may leave in the temporary file.
Archives == TarFiles \cup {TarNoManifest}

\* Image references: one as docker image pull prints it, and one in short form.
DockerRepoPrefix ==
  <<"d", "o", "c", "k", "e", "r", ".", "i", "o", "/",
    "l", "i", "b", "r", "a", "r", "y", "/">>

App == <<"a", ":", "1">>

Other == <<"b", ":", "1">>

Ghost == <<"g", ":", "1">>

Images == {DockerRepoPrefix \o App, Other}

\* The RepoTags of a manifest record: JSON null, or an array of references.
Null == [null |-> TRUE, items |-> <<>>]

Tags(items) == [null |-> FALSE, items |-> items]

\* The decoded manifest.json: a value that is no array, or an array of records.
NotAnArray == [isArray |-> FALSE, items |-> <<>>]

\* The manifest of an archive holding four images: an untagged one, one whose
\* tag is written with the repository prefix, the one tagged a:1, whose layers
\* are given, and a later one that carries the tag a:1 too.
ManifestOf(layers) ==
  [isArray |-> TRUE,
   items |-> <<[RepoTags |-> Null, Layers |-> <<"X">>],
               [RepoTags |-> Tags(<<DockerRepoPrefix \o App>>), Layers |-> <<"X">>],
               [RepoTags |-> Tags(<<Ghost, App>>), Layers |-> layers],
               [RepoTags |-> Tags(<<App>>), Layers |-> <<"M">>]>>]

\* The manifest of an archive holding the image b:1 alone, made of layer B.
SmallManifest ==
  [isArray |-> TRUE, items |-> <<[RepoTags |-> Tags(<<Other>>), Layers |-> <<"B">>]>>]

Manifests ==
  {NotAnArray, SmallManifest} \cup {ManifestOf(layers) : layers \in LayerLists}

\* rawManifest before manifest.json has been decoded
Undecoded == [isArray |-> FALSE, items |-> <<"undefined">>]

VARIABLES
  pc,          \* the stage of extractContainerImage
  image,       \* the image reference
  tarFile,     \* the outer archive in the temporary file: its entries in order
  rawManifest, \* getArchiveManifest: rawManifest, once decoded
  names,       \* mainEntry.Layers
  directory,   \* extractLayers: directory (empty before the call)
  stdPath,     \* the release of the standard library's path module in use
  tempFile,    \* the temporary file: "none", "exists" or "removed"
  handles,     \* the number of open handles on the temporary file
  opens,       \* the number of times Deno.open has been called
  layerInfo,   \* the LayerInformation array
  digestNext,  \* the index in layerInfo of the next layer to digest
  digestOrder, \* the indices applyDigest has been called with, in order
  whiteouts,   \* UpperLayerDigest.#whiteouts
  filePaths,   \* UpperLayerDigest.#filePaths
  layerNames,  \* extractLayers: the set names
  entryMap,    \* extractLayers: entryMap
  cursor,      \* extractLayers: the position of untar in the outer archive
  fs,          \* the file system: path -> what was created there
  writes,      \* every creation extractLayers performed, as a set
  err          \* the error thrown, if any

vars ==
  <<pc, image, tarFile, rawManifest, names, directory, stdPath, tempFile,
    handles, opens, layerInfo, digestNext, digestOrder, whiteouts, filePaths,
    layerNames, entryMap, cursor, fs, writes, err>>

(***************************************************************************)
(* LayerEntry                                                              *)
(***************************************************************************)
OpaqueBase == <<".", "w", "h", ".", ".", "w", "h", ".", ".", "o", "p", "q">>

WhiteoutPrefix == <<".", "w", "h", ".">>

LayerEntry(layerName, type, path, size) ==
  LET parsedPath == Parse(Slash \o path)
  IN  [layerName |-> layerName, type |-> type, path |-> path, size |-> size,
       dir |-> parsedPath.dir, base |-> parsedPath.base,
       whiteout |->
         IF parsedPath.base = OpaqueBase THEN parsedPath.dir
         ELSE IF StartsWith(parsedPath.base, WhiteoutPrefix)
         THEN Join(parsedPath.dir, Substring(parsedPath.base, 4))
         ELSE Empty,
       isOpaqueWhiteout |-> parsedPath.base = OpaqueBase]

(***************************************************************************)
(* UpperLayerDigest                                                        *)
(***************************************************************************)
\* The number of leading segments on which parts and compare agree.
RECURSIVE EndOfPrefix(_, _, _)
EndOfPrefix(parts, compare, i) ==
  IF i > Len(parts) THEN Len(parts)
  ELSE IF i > Len(compare) \/ compare[i] # parts[i] THEN i - 1
  ELSE EndOfPrefix(parts, compare, i + 1)

\* Path.common([first, second]). The early releases of the standard library
\* (the 0.x line, which also has the Streams.copy this program calls) end the
\* shared leading segments with a separator in every case; the late releases
\* do not when second is, segment by segment, a leading part of first.
PathCommon(first, second) ==
  LET parts == Split(first)
      compare == Split(second)
      endOfPrefix == EndOfPrefix(parts, compare, 1)
      prefix == JoinSegs(SubSeq(parts, 1, endOfPrefix))
  IN  IF stdPath = "early"
      THEN IF first = Empty \/ endOfPrefix = 0 THEN Empty
           ELSE IF prefix # Empty /\ prefix[Len(prefix)] = SEP THEN prefix
           ELSE prefix \o Slash
      ELSE IF endOfPrefix = Len(compare) /\ Len(compare) <= Len(parts) THEN prefix
           ELSE IF endOfPrefix = 0 THEN Empty
           ELSE prefix \o Slash

DirectoryMatch(candidate, set) ==
  \E item \in set : candidate = item \/ PathCommon(candidate, item) = item

\* IsEntryAllowed with a fault: of the entries outside the occluded
\* directories, the directories are dropped.
IsEntryAllowed_NoDirectories(entry, wh, fp) ==
  IF DirectoryMatch(entry.dir, wh) THEN FALSE
  ELSE /\ entry.type # "directory"
       /\ entry.type # "file" \/ ~(entry.path \in fp \/ (Slash \o entry.path) \in wh)

\* IsEntryAllowed with a fault: a file already claimed by a newer layer passes.
IsEntryAllowed_NoClaimed(entry, wh, fp) ==
  IF DirectoryMatch(entry.dir, wh) THEN FALSE
  ELSE entry.type # "file" \/ ~((Slash \o entry.path) \in wh)

\* IsEntryAllowed with a fault: a file a marker targets exactly passes.
IsEntryAllowed_NoExact(entry, wh, fp) ==
  IF DirectoryMatch(entry.dir, wh) THEN FALSE
  ELSE entry.type # "file" \/ ~(entry.path \in fp)

IsEntryAllowed(entry, wh, fp) ==
  IF DirectoryMatch(entry.dir, wh) THEN FALSE
  ELSE entry.type # "file" \/ ~(entry.path \in fp \/ (Slash \o entry.path) \in wh)

\* addEntry over the entries of a layer: the sets after the last of them
RECURSIVE AddEntries(_, _)
AddEntries(entries, digest) ==
  IF entries = <<>> THEN digest
  ELSE LET entry == Head(entries)
       IN  AddEntries(Tail(entries),
             IF entry.whiteout # Empty
             THEN [digest EXCEPT !.whiteouts = @ \cup {entry.whiteout}]
             ELSE IF entry.type = "file" \/ entry.type = "symlink"
             THEN [digest EXCEPT !.filePaths = @ \cup {entry.path}]
             ELSE digest)

\* Array.prototype.filter with isEntryAllowed
FilterEntries(entries, wh, fp) ==
  SelectSeq(entries, LAMBDA e : IsEntryAllowed(e, wh, fp))

(***************************************************************************)
(* parseLayerFiles                                                         *)
(***************************************************************************)
\* infoMap.get(name): the last element of results with that name
InfoIndex(layers, name) ==
  CHOOSE i \in 1..Len(layers) :
    layers[i] = name /\ \A j \in (i + 1)..Len(layers) : layers[j] # name

\* The entries of one layer archive that the catalog keeps
RECURSIVE ParseNested(_, _)
ParseNested(fileName, nested) ==
  IF nested = <<>> THEN <<>>
  ELSE LET nestedEntry == Head(nested)
       IN  (IF nestedEntry.type \in {"directory", "file", "symlink"}
            THEN <<LayerEntry(fileName, nestedEntry.type, nestedEntry.fileName,
                              nestedEntry.fileSize)>>
            ELSE <<>>) \o ParseNested(fileName, Tail(nested))

\* The loop over the outer archive
RECURSIVE ParseOuter(_, _, _)
ParseOuter(tar, layers, results) ==
  IF tar = <<>> THEN results
  ELSE LET entry == Head(tar)
       IN  IF entry.type = "file" /\ \E i \in 1..Len(layers) : layers[i] = entry.fileName
           THEN LET k == InfoIndex(layers, entry.fileName)
                    got == ParseNested(entry.fileName, LayerArchive(entry.fileName))
                IN  ParseOuter(Tail(tar), layers,
                      [results EXCEPT ![k] =
                         [@ EXCEPT !.entries = @ \o got, !.loaded = TRUE]])
           ELSE ParseOuter(Tail(tar), layers, results)

\* The result of parseLayerFiles, and whether it throws instead
ParseResults(tar, layers) ==
  ParseOuter(tar, layers,
    [i \in 1..Len(layers) |-> [name |-> layers[i], entries |-> <<>>, loaded |-> FALSE]])

ParseThrows(results) == \E i \in 1..Len(results) : ~results[i].loaded

(***************************************************************************)
(* extractLayers                                                           *)
(***************************************************************************)
\* MapEntries with a fault: whiteout markers are mapped too.
RECURSIVE MapEntries_KeepMarkers(_, _)
MapEntries_KeepMarkers(entries, map) ==
  IF entries = <<>> THEN map
  ELSE LET entry == Head(entries)
       IN  MapEntries_KeepMarkers(Tail(entries),
             [p \in DOMAIN map \cup {entry.path} |->
                IF p = entry.path THEN entry ELSE map[p]])

\* entryMap.set over every entry of every layer, oldest layer first
RECURSIVE MapEntries(_, _)
MapEntries(entries, map) ==
  IF entries = <<>> THEN map
  ELSE LET entry == Head(entries)
       IN  MapEntries(Tail(entries),
             IF entry.whiteout = Empty
             THEN [p \in DOMAIN map \cup {entry.path} |->
                     IF p = entry.path THEN entry ELSE map[p]]
             ELSE map)

RECURSIVE BuildEntryMap(_, _)
BuildEntryMap(info, map) ==
  IF info = <<>> THEN map
  ELSE BuildEntryMap(Tail(info), MapEntries(Head(info).entries, map))

\* The path of the file system object a path string names
FsPath(path) ==
  IF Len(path) > 1 /\ path[Len(path)] = SEP THEN SubSeq(path, 1, Len(path) - 1)
  ELSE path

\* The directories above a path, up to the root or the working directory
RECURSIVE Ancestors(_)
Ancestors(path) ==
  LET d == Dirname(path)
  IN  IF d = path \/ d = Slash \/ d = Dot THEN {} ELSE {d} \cup Ancestors(d)

Put(fsx, path, obj) ==
  [p \in DOMAIN fsx \cup {path} |-> IF p = path THEN obj ELSE fsx[p]]

\* Deno.mkdir(path, {recursive: true})
Mkdir(fsx, path, layer) ==
  LET made == {d \in Ancestors(path) \cup {path} : d \notin DOMAIN fsx}
  IN  [p \in DOMAIN fsx \cup made |->
         IF p \in made THEN [kind |-> "directory", data |-> Empty, from |-> layer]
         ELSE fsx[p]]

\* ResolveLink with a fault: every link target is resolved against the root.
ResolveLink_FromRoot(dir, outputPath, destination) ==
  Normalize(Join(dir, destination))

\* The path a symbolic link is made to point at
ResolveLink(dir, outputPath, destination) ==
  IF IsAbsolute(destination)
  THEN Normalize(Join(dir, destination))
  ELSE Normalize(Join(Dirname(outputPath), destination))

\* What extractLayers does with one nested entry of the archive named layer.
\* acc is the file system, the creations so far and the error thrown.
ExtractNested(nestedEntry, layer, map, dir, acc) ==
  IF nestedEntry.type \notin {"file", "directory", "symlink"} THEN acc
  ELSE IF nestedEntry.fileName \notin DOMAIN map THEN acc
  ELSE
    LET layerEntry == map[nestedEntry.fileName]
        outputPath == Normalize(Join(dir, nestedEntry.fileName))
        at == FsPath(outputPath)
    IN  IF ~StartsWith(outputPath, dir) THEN [acc EXCEPT !.err = "PathEscape"]
        ELSE IF layerEntry.type = "directory"
        THEN [acc EXCEPT
                !.fs = Mkdir(@, at, layer),
                !.writes = @ \cup {[path |-> at, layer |-> layer,
                                    kind |-> "directory", data |-> Empty]}]
        ELSE IF layerEntry.type = "file"
        THEN [acc EXCEPT
                !.fs = Put(@, at, [kind |-> "file", data |-> nestedEntry.content,
                                   from |-> layer]),
                !.writes = @ \cup {[path |-> at, layer |-> layer,
                                    kind |-> "file", data |-> nestedEntry.content]}]
        ELSE
          LET destination == nestedEntry.linkName
              destinationPath == ResolveLink(dir, outputPath, destination)
          IN  IF destination = NoLink THEN [acc EXCEPT !.err = "TypeError"]
              ELSE IF ~StartsWith(destinationPath, dir)
              THEN [acc EXCEPT !.err = "PathEscape"]
              ELSE [acc EXCEPT
                      !.fs = Put(@, at, [kind |-> "symlink", data |-> destinationPath,
                                         from |-> layer]),
                      !.writes = @ \cup {[path |-> at, layer |-> layer,
                                          kind |-> "symlink",
                                          data |-> destinationPath]}]

\* The loop over the nested entries of one layer archive: it ends at a throw
RECURSIVE ExtractArchive(_, _, _, _, _)
ExtractArchive(nested, layer, map, dir, acc) ==
  IF nested = <<>> \/ acc.err # "" THEN acc
  ELSE ExtractArchive(Tail(nested), layer, map, dir,
         ExtractNested(Head(nested), layer, map, dir, acc))

\* One turn of the loop over the outer archive
ExtractOuter(entry, known, map, dir, acc) ==
  IF (entry.type = "file" \/ entry.type = "symlink") /\ entry.fileName \in known
  THEN ExtractArchive(LayerArchive(entry.fileName), entry.fileName, map, dir, acc)
  ELSE acc

\* The whole loop, for an outer archive whose entries come in the order of tar
RECURSIVE ExtractAll(_, _, _, _, _)
ExtractAll(tar, known, map, dir, acc) ==
  IF tar = <<>> \/ acc.err # "" THEN acc
  ELSE ExtractAll(Tail(tar), known, map, dir,
         ExtractOuter(Head(tar), known, map, dir, acc))

NoFs == [p \in {} |-> [kind |-> "", data |-> Empty, from |-> ""]]

(***************************************************************************)
(* deferred.ts, and the resources the scopes release                       *)
(***************************************************************************)
\* The functions handed to deferred and asyncDeferred
CloseReader == "reader.close"

RemoveTarFile == "Deno.remove"

\* A call of such a function: what it does to the handles on the temporary file
\* and to the file itself. Any other function touches neither.
Call(f, res) ==
  IF f = CloseReader THEN [res EXCEPT !.handles = @ - 1]
  ELSE IF f = RemoveTarFile THEN [res EXCEPT !.tempFile = "removed"]
  ELSE res

\* Deferred with a fault: the object's dispose method does not call f.
Deferred_Forgets(f) == [dispose |-> "nothing"]

Deferred(f) == [dispose |-> f]

AsyncDeferred(f) == [asyncDispose |-> f]

\* What leaving the scope of a using declaration does with its object
Dispose(resource, res) == Call(resource.dispose, res)

\* The same for an await using declaration
AsyncDispose(resource, res) == Call(resource.asyncDispose, res)

\* Deno.open(tarFile)
Open(res) == [res EXCEPT !.handles = @ + 1]

\* Leaving a function that holds using _ = deferred(() => reader.close())
LeaveReaderScope(res) == Dispose(Deferred(CloseReader), res)

\* Leaving extractContainerImage once the temporary file has been made
LeaveImageScope(res) == AsyncDispose(AsyncDeferred(RemoveTarFile), res)

(***************************************************************************)
(* getArchiveManifest and the choice of the manifest record                *)
(***************************************************************************)
\* Some entry of the outer archive is the manifest
HasManifest(tar) ==
  \E i \in 1..Len(tar) : tar[i].type = "file" /\ tar[i].fileName = "manifest.json"

\* The loop over the outer archive: the manifest returned, or the error thrown.
\* raw is what Streams.toJson decodes from the entry.
RECURSIVE GetArchiveManifest(_, _)
GetArchiveManifest(tar, raw) ==
  IF tar = <<>> THEN [err |-> "NoManifest", manifest |-> <<>>]
  ELSE IF Head(tar).type = "file" /\ Head(tar).fileName = "manifest.json"
  THEN IF raw.isArray THEN [err |-> "", manifest |-> raw.items]
       ELSE [err |-> "ManifestNotArray", manifest |-> <<>>]
  ELSE GetArchiveManifest(Tail(tar), raw)

\* ShortImageName with a fault: the repository prefix is left in place.
ShortImageName_Whole(img) == img

ShortImageName(img) ==
  IF StartsWith(img, DockerRepoPrefix) THEN Substring(img, Len(DockerRepoPrefix))
  ELSE img

\* Array.prototype.includes
Includes(items, x) == \E i \in 1..Len(items) : items[i] = x

\* manifest.find: the index of the first record tagged with the reference,
\* 0 when there is none
FindMainEntry(manifest, shortImageName) ==
  LET hits == {i \in 1..Len(manifest) :
                 /\ ~manifest[i].RepoTags.null
                 /\ Includes(manifest[i].RepoTags.items, shortImageName)}
  IN  IF hits = {} THEN 0 ELSE CHOOSE i \in hits : \A j \in hits : i <= j

(***************************************************************************)
(* The run of extractContainerImage                                        *)
(***************************************************************************)
Resources == [handles |-> handles, tempFile |-> tempFile]

Init ==
  /\ pc = "pull"
  /\ image \in Images
  /\ tarFile = <<>>
  /\ rawManifest = Undecoded
  /\ names = <<>>
  /\ directory = Empty
  /\ stdPath \in {"early", "late"}
  /\ tempFile = "none"
  /\ handles = 0
  /\ opens = 0
  /\ layerInfo = <<>>
  /\ digestNext = 0
  /\ digestOrder = <<>>
  /\ whiteouts = {}
  /\ filePaths = {}
  /\ layerNames = {}
  /\ entryMap = NoFs
  /\ cursor = 0
  /\ fs = NoFs
  /\ writes = {}
  /\ err = ""

\* options.pull: docker image pull prints the actual name of the image, or fails
PullImage ==
  /\ pc = "pull"
  /\ \/ pc' = "save" /\ image' = image /\ err' = err
     \/ \E actual \in Images : pc' = "save" /\ image' = actual /\ err' = err
     \/ pc' = "failed" /\ image' = image /\ err' = "CommandRunError"
  /\ UNCHANGED <<tarFile, rawManifest, names, directory, stdPath, tempFile,
                 handles, opens, layerInfo, digestNext, digestOrder, whiteouts,
                 filePaths, layerNames, entryMap, cursor, fs, writes>>

\* Deno.makeTempFile and docker image save, which writes the outer archive to
\* the temporary file, or fails
SaveImage ==
  /\ pc = "save"
  /\ LET made == [Resources EXCEPT !.tempFile = "exists"]
         left == LeaveImageScope(made)
     IN  \/ /\ tarFile' \in Archives
            /\ pc' = "manifest"
            /\ tempFile' = made.tempFile
            /\ handles' = made.handles
            /\ err' = err
         \/ /\ pc' = "failed"
            /\ err' = "CommandRunError"
            /\ tempFile' = left.tempFile
            /\ handles' = left.handles
            /\ UNCHANGED tarFile
  /\ UNCHANGED <<image, rawManifest, names, directory, stdPath, opens, layerInfo, digestNext,
                 digestOrder, whiteouts, filePaths, layerNames, entryMap, cursor,
                 fs, writes>>

\* getArchiveManifest(tarFile) and manifest.find
ReadManifest ==
  /\ pc = "manifest"
  /\ opens' = opens + 1
  /\ \E raw \in IF HasManifest(tarFile) THEN Manifests ELSE {rawManifest} :
       LET got == GetArchiveManifest(tarFile, raw)
           closed == LeaveReaderScope(Open(Resources))
           mainEntry == FindMainEntry(got.manifest, ShortImageName(image))
           thrown == IF got.err # "" THEN got.err
                     ELSE IF mainEntry = 0 THEN "NoImageTag"
                     ELSE ""
           left == IF thrown # "" THEN LeaveImageScope(closed) ELSE closed
       IN  /\ rawManifest' = raw
           /\ err' = thrown
           /\ pc' = IF thrown # "" THEN "failed" ELSE "parse"
           /\ names' = IF thrown # "" THEN names ELSE got.manifest[mainEntry].Layers
           /\ handles' = left.handles
           /\ tempFile' = left.tempFile
  /\ UNCHANGED <<image, tarFile, directory, stdPath, layerInfo, digestNext,
                 digestOrder, whiteouts, filePaths, layerNames, entryMap, cursor,
                 fs, writes>>

\* parseLayerFiles(tarFile, mainEntry.Layers)
ParseLayerFiles ==
  /\ pc = "parse"
  /\ opens' = opens + 1
  /\ LET results == ParseResults(tarFile, names)
         closed == LeaveReaderScope(Open(Resources))
         left == IF ParseThrows(results) THEN LeaveImageScope(closed) ELSE closed
     IN  /\ IF ParseThrows(results)
            THEN /\ pc' = "failed"
                 /\ err' = "NotFound"
                 /\ UNCHANGED <<layerInfo, digestNext>>
            ELSE /\ pc' = "digest"
                 /\ layerInfo' = results
                 /\ digestNext' = Len(results)
                 /\ err' = err
         /\ handles' = left.handles
         /\ tempFile' = left.tempFile
  /\ UNCHANGED <<image, tarFile, rawManifest, names, directory, stdPath,
                 digestOrder, whiteouts, filePaths, layerNames, entryMap, cursor,
                 fs, writes>>

\* ApplyDigest with a fault: the entries of the layer are added to the digest
\* before they are filtered.
ApplyDigest_AddFirst ==
  /\ pc = "digest"
  /\ digestNext >= 1
  /\ LET info == layerInfo[digestNext]
         digest == AddEntries(info.entries,
                              [whiteouts |-> whiteouts, filePaths |-> filePaths])
         kept == FilterEntries(info.entries, digest.whiteouts, digest.filePaths)
     IN  /\ layerInfo' = [layerInfo EXCEPT ![digestNext].entries = kept]
         /\ whiteouts' = digest.whiteouts
         /\ filePaths' = digest.filePaths
  /\ digestOrder' = Append(digestOrder, digestNext)
  /\ digestNext' = digestNext - 1
  /\ UNCHANGED <<pc, image, tarFile, rawManifest, names, directory, stdPath,
                 tempFile, handles, opens, layerNames, entryMap, cursor, fs,
                 writes, err>>

\* ApplyDigest with a fault: the loop runs over layerInfo, oldest layer first.
ApplyDigest_OldestFirst ==
  /\ pc = "digest"
  /\ digestNext >= 1
  /\ LET at == Len(layerInfo) + 1 - digestNext
         info == layerInfo[at]
         kept == FilterEntries(info.entries, whiteouts, filePaths)
         digest == AddEntries(kept, [whiteouts |-> whiteouts, filePaths |-> filePaths])
     IN  /\ layerInfo' = [layerInfo EXCEPT ![at].entries = kept]
         /\ whiteouts' = digest.whiteouts
         /\ filePaths' = digest.filePaths
         /\ digestOrder' = Append(digestOrder, at)
  /\ digestNext' = digestNext - 1
  /\ UNCHANGED <<pc, image, tarFile, rawManifest, names, directory, stdPath,
                 tempFile, handles, opens, layerNames, entryMap, cursor, fs,
                 writes, err>>

\* One turn of the loop over layerInfo.toReversed(): digest.applyDigest(info)
ApplyDigest ==
  /\ pc = "digest"
  /\ digestNext >= 1
  /\ LET info == layerInfo[digestNext]
         kept == FilterEntries(info.entries, whiteouts, filePaths)
         digest == AddEntries(kept, [whiteouts |-> whiteouts, filePaths |-> filePaths])
     IN  /\ layerInfo' = [layerInfo EXCEPT ![digestNext].entries = kept]
         /\ whiteouts' = digest.whiteouts
         /\ filePaths' = digest.filePaths
  /\ digestOrder' = Append(digestOrder, digestNext)
  /\ digestNext' = digestNext - 1
  /\ UNCHANGED <<pc, image, tarFile, rawManifest, names, directory, stdPath,
                 tempFile, handles, opens, layerNames, entryMap, cursor, fs,
                 writes, err>>

\* extractLayers, up to the opening of the outer archive
ExtractLayersOpen ==
  /\ pc = "digest"
  /\ digestNext = 0
  /\ \E d \in Directories : directory' = Normalize(d)
  /\ layerNames' = {layerInfo[i].name : i \in 1..Len(layerInfo)}
  /\ entryMap' = BuildEntryMap(layerInfo, NoFs)
  /\ opens' = opens + 1
  /\ handles' = Open(Resources).handles
  /\ cursor' = 1
  /\ pc' = "extract"
  /\ UNCHANGED <<image, tarFile, rawManifest, names, stdPath, tempFile,
                 layerInfo, digestNext, digestOrder, whiteouts, filePaths, fs,
                 writes, err>>

\* extractLayers: one entry of the outer archive
ExtractEntry ==
  /\ pc = "extract"
  /\ cursor <= Len(tarFile)
  /\ LET acc == ExtractOuter(tarFile[cursor], layerNames, entryMap, directory,
                             [fs |-> fs, writes |-> writes, err |-> ""])
         left == IF acc.err # "" THEN LeaveImageScope(LeaveReaderScope(Resources))
                 ELSE Resources
     IN  /\ fs' = acc.fs
         /\ writes' = acc.writes
         /\ err' = acc.err
         /\ pc' = IF acc.err # "" THEN "failed" ELSE "extract"
         /\ handles' = left.handles
         /\ tempFile' = left.tempFile
  /\ cursor' = cursor + 1
  /\ UNCHANGED <<image, tarFile, rawManifest, names, directory, stdPath, opens,
                 layerInfo, digestNext, digestOrder, whiteouts, filePaths,
                 layerNames, entryMap>>

\* extractLayers returns, and extractContainerImage after it
ExtractLayersReturn ==
  /\ pc = "extract"
  /\ cursor > Len(tarFile)
  /\ pc' = "done"
  /\ LET left == LeaveImageScope(LeaveReaderScope(Resources))
     IN  /\ handles' = left.handles
         /\ tempFile' = left.tempFile
  /\ UNCHANGED <<image, tarFile, rawManifest, names, directory, stdPath, opens,
                 layerInfo, digestNext, digestOrder, whiteouts, filePaths,
                 layerNames, entryMap, cursor, fs, writes, err>>

Next ==
  \/ PullImage
  \/ SaveImage
  \/ ReadManifest
  \/ ParseLayerFiles
  \/ ApplyDigest
  \/ ExtractLayersOpen
  \/ ExtractEntry
  \/ ExtractLayersReturn

Spec == Init /\ [][Next]_vars

(***************************************************************************)
(* Properties                                                              *)
(***************************************************************************)
\* The entries of a catalog, as a set
Entries(info) == {info.entries[i] : i \in 1..Len(info.entries)}

\* The catalogs as parseLayerFiles returned them, before the digest
Raw == ParseResults(tarFile, names)

\* The digest has just been applied to every layer; the catalogs do not change
\* after this state
Digested == pc = "digest" /\ digestNext = 0

\* extractLayers has run to its end or to a throw
Extracted == pc = "done" \/ (pc = "failed" /\ cursor > 0)

IsMarkerBase(base) == base = OpaqueBase \/ StartsWith(base, WhiteoutPrefix)

\* The path of an entry as the whiteout targets are written: with a leading separator
AbsPath(entry) == Slash \o FsPath(entry.path)

\* c is d or lies below d, segment by segment
AtOrBelow(c, d) == c = d \/ d = Slash \/ StartsWith(c, d \o Slash)

\* The layers whose catalog in raw declares path as a file
FileLayers(raw, path) ==
  {i \in 1..Len(raw) : \E e \in Entries(raw[i]) : e.type = "file" /\ e.path = path}

\* The paths declared as a file by two layers or more
SharedFilePaths(raw) ==
  {path \in {e.path : e \in UNION {Entries(raw[i]) : i \in 1..Len(raw)}} :
     Cardinality(FileLayers(raw, path)) >= 2}

Newest(S) == CHOOSE i \in S : \A j \in S : j <= i

HasFile(info, path) == \E e \in Entries(info) : e.type = "file" /\ e.path = path

\* A layer newer than k has a surviving symbolic link at path, or a surviving
\* marker that targets path or occludes its directory
OccludedFromAbove(k, path) ==
  \E j \in (k + 1)..Len(layerInfo) : \E m \in Entries(layerInfo[j]) :
    IF m.whiteout # Empty
    THEN \/ m.whiteout = Slash \o path
         \/ DirectoryMatch(Parse(Slash \o path).dir, {m.whiteout})
    ELSE m.type = "symlink" /\ m.path = path

\* C1, as stated: of the layers declaring a file path, the newest keeps its
\* entry after the digest and every older one has lost it.
C1_NewestWins ==
  Digested =>
    LET raw == Raw
    IN  \A path \in SharedFilePaths(raw) :
          LET k == Newest(FileLayers(raw, path))
          IN  /\ HasFile(layerInfo[k], path)
              /\ \A i \in 1..(k - 1) : ~HasFile(layerInfo[i], path)

\* C1, amended: the newest declaring layer keeps its entry unless a still newer
\* layer has a surviving symbolic link at the path or a surviving marker that
\* targets the path or occludes its directory; every older layer has lost its
\* file entry for the path in any case.
C1_NewestWinsUnlessOccluded ==
  Digested =>
    LET raw == Raw
    IN  \A path \in SharedFilePaths(raw) :
          LET k == Newest(FileLayers(raw, path))
          IN  /\ HasFile(layerInfo[k], path) \/ OccludedFromAbove(k, path)
              /\ \A i \in 1..(k - 1) : ~HasFile(layerInfo[i], path)

\* C1's case: two layers declared the same file, the digest kept the newer
\* entry and dropped the older one
C1_Witness ==
  /\ Digested
  /\ LET raw == Raw
     IN  \E path \in SharedFilePaths(raw) :
           /\ HasFile(layerInfo[Newest(FileLayers(raw, path))], path)
           /\ \E i \in FileLayers(raw, path) : ~HasFile(layerInfo[i], path)

\* The path extractLayers writes a nested entry of that name to
OutputOf(fileName) == FsPath(Normalize(Join(directory, fileName)))

\* C2, as stated: a file written to the output path of a mapped path comes from
\* the layer archive that owns the mapped entry, and from no other.
C2_OnlyWinnerWritten ==
  \A w \in writes :
    w.kind = "file" =>
      \A path \in DOMAIN entryMap :
        w.path = OutputOf(path) => w.layer = entryMap[path].layerName

\* C3, as stated: below a layer with a surviving marker that targets a path, no
\* entry of any kind is left at that path.
C3_PerPathWhiteout ==
  Digested =>
    \A l \in 1..Len(layerInfo) : \A m \in Entries(layerInfo[l]) :
      (m.whiteout # Empty /\ ~m.isOpaqueWhiteout) =>
        \A i \in 1..(l - 1) : \A e \in Entries(layerInfo[i]) :
          AbsPath(e) # m.whiteout

\* C4, as stated: whatever extractLayers creates, and whatever a link it creates
\* points at, is the destination root or lies below it.
C4_PathConfinement ==
  \A path \in DOMAIN fs :
    /\ AtOrBelow(path, FsPath(directory))
    /\ fs[path].kind = "symlink" => AtOrBelow(fs[path].data, FsPath(directory))

\* C5, as stated: below a layer with a surviving opaque marker of directory D,
\* no entry is left whose directory is D or lies below D, and the directory
\* entry of D itself is left.
C5_OpaqueScope ==
  Digested =>
    LET raw == Raw
    IN  \A l \in 1..Len(layerInfo) : \A m \in Entries(layerInfo[l]) :
          m.isOpaqueWhiteout =>
            \A i \in 1..(l - 1) :
              /\ \A e \in Entries(layerInfo[i]) : ~AtOrBelow(e.dir, m.whiteout)
              /\ \A e \in Entries(raw[i]) :
                   (e.type = "directory" /\ AbsPath(e) = m.whiteout) =>
                     e \in Entries(layerInfo[i])

\* What a file system holds, whoever created it
Content(fsx) == [path \in DOMAIN fsx |-> [kind |-> fsx[path].kind, data |-> fsx[path].data]]

\* extractLayers over the same archive with its entries in the opposite order
OtherOrder ==
  ExtractAll(Reverse(tarFile), layerNames, entryMap, directory,
             [fs |-> NoFs, writes |-> {}, err |-> ""])

\* C6, as stated: the order of the entries of the outer archive changes neither
\* whether extraction succeeds nor what the destination holds in the end.
C6_OrderIrrelevant ==
  Extracted =>
    LET other == OtherOrder
    IN  /\ (other.err = "") = (pc = "done")
        /\ pc = "done" => Content(other.fs) = Content(fs)

NestedOf(name) == {LayerArchive(name)[i] : i \in 1..Len(LayerArchive(name))}

\* C8: no marker is in entryMap, and nothing is created at the output path of
\* a marker of any layer of the manifest.
C8_MarkersNeverMaterialized ==
  /\ \A path \in DOMAIN entryMap :
       ~IsMarkerBase(Parse(Slash \o path).base) /\ ~IsMarkerBase(entryMap[path].base)
  /\ \A name \in layerNames : \A n \in NestedOf(name) :
       IsMarkerBase(Parse(Slash \o n.fileName).base) =>
         /\ OutputOf(n.fileName) \notin DOMAIN fs
         /\ \A w \in writes : w.path # OutputOf(n.fileName)

\* C8's case: markers survived the digest and were folded into the occlusion
\* state, and extraction has run to its end and created something
C8_Witness ==
  /\ pc = "done"
  /\ whiteouts # {}
  /\ \E i \in 1..Len(layerInfo) : \E e \in Entries(layerInfo[i]) : e.whiteout # Empty
  /\ DOMAIN fs # {}

\* The link of the example, root/a/b/l, and where ../e/p leads from it
ExampleLink == directory \o <<"/", "a", "/", "b", "/", "l">>

ExampleTarget == directory \o <<"/", "a", "/", "e", "/", "p">>

\* C9: every link created points at the normalized join of the root and the
\* link target when the target is absolute, and of the directory of the output
\* path and the link target otherwise; the link root/a/b/l to ../e/p of layer L
\* is created pointing at root/a/e/p, and the link root/a/b/l to ../../../e/p of
\* layer X is never created: extraction throws the path-escape error there.
C9_SymlinkResolution ==
  /\ \A w \in writes :
       w.kind = "symlink" =>
         \E n \in NestedOf(w.layer) :
           LET out == Normalize(Join(directory, n.fileName))
           IN  /\ n.type = "symlink"
               /\ FsPath(out) = w.path
               /\ w.data = IF IsAbsolute(n.linkName)
                           THEN Normalize(Join(directory, n.linkName))
                           ELSE Normalize(Join(Dirname(out), n.linkName))
               /\ w.path \in DOMAIN fs
  /\ (pc = "done" /\ "L" \in layerNames) =>
       /\ ExampleLink \in DOMAIN fs
       /\ fs[ExampleLink] = [kind |-> "symlink", data |-> ExampleTarget, from |-> "L"]
  /\ \A w \in writes : w.layer = "X" => w.kind # "symlink"
  /\ pc = "done" => "X" \notin layerNames
  /\ (pc = "failed" /\ cursor > 1 /\ tarFile[cursor - 1].fileName = "X") =>
       err = "PathEscape"

\* C9's case: the link of layer L has been created
C9_Witness ==
  /\ pc = "done"
  /\ \E w \in writes : w.kind = "symlink" /\ w.layer = "L" /\ w.path = ExampleLink

\* parseLayerFiles has been called and has returned or thrown
ParseReturned == opens >= 2

\* Some entry of the outer archive is a file of that name
IsFileEntry(name) ==
  \E k \in 1..Len(tarFile) : tarFile[k].type = "file" /\ tarFile[k].fileName = name

\* The file, directory and link entries of a layer archive, in order
KeptOf(name) ==
  SelectSeq(LayerArchive(name), LAMBDA n : n.type \in {"file", "directory", "symlink"})

\* C10, as stated: parseLayerFiles throws (not found) exactly when some
\* requested name is no file entry of the outer archive, and otherwise returns
\* one loaded catalog per requested name, in order, holding the file,
\* directory and link entries of that layer archive.
C10_ParseComplete ==
  LET parseFailed == pc = "failed" /\ err = "NotFound"
      allThere == \A i \in 1..Len(names) : IsFileEntry(names[i])
  IN  /\ ParseReturned => (parseFailed <=> ~allThere)
      /\ parseFailed => err = "NotFound"
      /\ (pc = "digest" /\ digestNext = Len(names)) =>
           /\ Len(layerInfo) = Len(names)
           /\ \A i \in 1..Len(names) :
                /\ layerInfo[i].name = names[i]
                /\ layerInfo[i].loaded
                /\ Len(layerInfo[i].entries) = Len(KeptOf(names[i]))
                /\ \A k \in 1..Len(layerInfo[i].entries) :
                     /\ layerInfo[i].entries[k].path = KeptOf(names[i])[k].fileName
                     /\ layerInfo[i].entries[k].type = KeptOf(names[i])[k].type

\* The stages of extractContainerImage in their order
StageOrder == <<"pull", "save", "manifest", "parse", "digest", "extract", "done">>

StageIndex(stage) == CHOOSE i \in 1..Len(StageOrder) : StageOrder[i] = stage

\* The indices of the layers, newest first
NewestFirst == [i \in 1..Len(layerInfo) |-> Len(layerInfo) + 1 - i]

\* C11: every step that changes the stage leads from a running stage to the
\* next one in the order pull, save, manifest read, layer parse, digest,
\* extraction, or to the failure; nothing happens after the failure;
\* applyDigest is called during the digest only, each call with the newest
\* layer not digested yet, so once per layer and newest first; extraction
\* begins, and anything is written, only after the call for the oldest layer;
\* and after a failure before extraction nothing has been written.
C11_PipelineOrder ==
  [][/\ pc' # pc =>
          /\ pc \notin {"failed", "done"}
          /\ pc' = "failed" \/ StageIndex(pc') = StageIndex(pc) + 1
     /\ pc = "failed" => UNCHANGED vars
     /\ digestOrder' # digestOrder =>
          /\ pc = "digest" /\ pc' = "digest"
          /\ digestOrder' = Append(digestOrder, Len(layerInfo) - Len(digestOrder))
          /\ Len(digestOrder') <= Len(layerInfo)
     /\ (whiteouts' # whiteouts \/ filePaths' # filePaths \/
         (layerInfo' # layerInfo /\ pc # "parse")) => digestOrder' # digestOrder
     /\ (pc' = "extract" \/ writes' # writes \/ fs' # fs) =>
          /\ pc \in {"digest", "extract"}
          /\ digestOrder = NewestFirst
     /\ (pc' = "failed" /\ pc # "extract") => (writes' = {} /\ fs' = NoFs)]_vars

\* C11's case: a run over three layers has gone through every stage and has
\* written to the destination
C11_Witness ==
  /\ pc = "done"
  /\ Len(digestOrder) = 3
  /\ writes # {}

\* C12: disposing the object deferred(f) or asyncDeferred(f) returns has the
\* effect of calling f; a handle on the outer archive is open only while
\* extractLayers runs, so each of getArchiveManifest, parseLayerFiles and
\* extractLayers has closed the handle it opened when it returns or throws;
\* and when extractContainerImage has returned or thrown, the temporary file,
\* if it was made, has been removed.
C12_ScopedRelease ==
  /\ \A f \in {CloseReader, RemoveTarFile} :
       /\ Dispose(Deferred(f), Resources) = Call(f, Resources)
       /\ AsyncDispose(AsyncDeferred(f), Resources) = Call(f, Resources)
  /\ Call(CloseReader, Open(Resources)) = Resources
  /\ Call(RemoveTarFile, Resources).tempFile = "removed"
  /\ handles = IF pc = "extract" THEN 1 ELSE 0
  /\ pc \in {"done", "failed"} => tempFile # "exists"
  /\ tempFile = "none" => opens = 0

\* C12's case: extractLayers has thrown, after the outer archive had been
\* opened for the third time
C12_Witness ==
  /\ pc = "failed"
  /\ opens = 3
  /\ err \in {"PathEscape", "TypeError"}
  /\ tempFile = "removed"

\* The reference without a leading docker.io/library/
Stripped(reference) ==
  LET n == Len(DockerRepoPrefix)
  IN  IF Len(reference) >= n /\ SubSeq(reference, 1, n) = DockerRepoPrefix
      THEN SubSeq(reference, n + 1, Len(reference))
      ELSE reference

\* The records of the decoded manifest tagged with the stripped reference
TaggedRecords ==
  {i \in 1..Len(rawManifest.items) :
     LET tags == rawManifest.items[i].RepoTags
     IN  ~tags.null /\ \E k \in 1..Len(tags.items) : tags.items[k] = Stripped(image)}

\* C13: once the manifest stage has run, it has failed with the missing
\* manifest error exactly when the outer archive has no file entry named
\* manifest.json, and with the format error exactly when it has one that
\* decodes to something that is no array; otherwise, when no record has
\* non-null RepoTags holding the stripped reference, it has failed with the
\* missing tag error, no layer has been parsed and nothing has been written;
\* and when some record has, the layers in use are those of such a record.
C13_ManifestSelection ==
  opens >= 1 =>
    LET present == \E i \in 1..Len(tarFile) :
                     tarFile[i].type = "file" /\ tarFile[i].fileName = "manifest.json"
    IN  /\ (pc = "failed" /\ err = "NoManifest") <=> ~present
        /\ (pc = "failed" /\ err = "ManifestNotArray") <=>
             (present /\ ~rawManifest.isArray)
        /\ (pc = "failed" /\ err = "NoImageTag") <=>
             (present /\ rawManifest.isArray /\ TaggedRecords = {})
        /\ err \in {"NoManifest", "ManifestNotArray", "NoImageTag"} =>
             /\ opens = 1
             /\ names = <<>> /\ layerInfo = <<>> /\ digestOrder = <<>>
             /\ writes = {} /\ fs = NoFs
        /\ (present /\ rawManifest.isArray /\ TaggedRecords # {}) =>
             \E i \in TaggedRecords : names = rawManifest.items[i].Layers

\* C13's case: the reference carries the repository prefix, the manifest has an
\* untagged record and a record tagged with the unstripped reference before
\* the record tagged with the stripped one, and the layers of the latter are
\* in use
C13_Witness ==
  /\ pc = "parse"
  /\ image = DockerRepoPrefix \o App
  /\ rawManifest.items[1].RepoTags.null
  /\ TaggedRecords = {3, 4}
  /\ names = rawManifest.items[3].Layers
  /\ Len(names) = 2

\* The layers whose catalog, in a list of catalogs, declares path as a directory
DirLayers(infos, path) ==
  {i \in 1..Len(infos) :
     \E e \in Entries(infos[i]) : e.type = "directory" /\ e.path = path}

\* The paths declared as a directory by two layers or more
SharedDirPaths(infos) ==
  {path \in {e.path : e \in UNION {Entries(infos[i]) : i \in 1..Len(infos)}} :
     Cardinality(DirLayers(infos, path)) >= 2}

\* A layer newer than k has a surviving marker whose target is the directory
\* of the entry, or a directory above it
ParentOccluded(k, entry) ==
  \E j \in (k + 1)..Len(layerInfo) : \E m \in Entries(layerInfo[j]) :
    m.whiteout # Empty /\ AtOrBelow(entry.dir, m.whiteout)

\* What extractLayers does, in the current state, with nested entry n of the
\* layer archive called name
Redeclared(n, name) ==
  ExtractNested(n, name, entryMap, directory,
                [fs |-> fs, writes |-> writes, err |-> ""])

\* C14: of a directory path that two or more layers declare as a directory,
\* the digest keeps every declaration whose parent directory no newer layer
\* occludes; and for a path with two or more declarations kept, at any point
\* of the extraction and with the outer archive in either order, extracting a
\* declaration throws nothing and leaves a directory at the output path,
\* changes nothing when the directory is there already, and whatever has been
\* created at the output path is that one directory, which is there when
\* extraction has run to its end.
C14_DirectoryRedeclared ==
  /\ Digested =>
       LET raw == Raw
       IN  \A path \in SharedDirPaths(raw) : \A i \in DirLayers(raw, path) :
             \A e \in Entries(raw[i]) :
               (e.type = "directory" /\ e.path = path) =>
                 e \in Entries(layerInfo[i]) \/ ParentOccluded(i, e)
  /\ (pc \in {"extract", "done"} \/ Extracted) =>
       \A path \in SharedDirPaths(layerInfo) :
         LET at == OutputOf(path)
         IN  /\ \A i \in DirLayers(layerInfo, path) :
                  \A n \in NestedOf(layerInfo[i].name) :
                    n.fileName = path =>
                      LET after == Redeclared(n, layerInfo[i].name)
                      IN  /\ after.err = ""
                          /\ at \in DOMAIN after.fs
                          /\ after.fs[at].kind = "directory"
                          /\ (at \in DOMAIN fs /\ fs[at].kind = "directory") =>
                               after.fs = fs
             /\ \A w \in writes : w.path = at => w.kind = "directory"
             /\ at \in DOMAIN fs => fs[at].kind = "directory"
             /\ pc = "done" => at \in DOMAIN fs

\* C14's case: layers A, B and O, the outer archive in the reverse order,
\* extraction has run to its end; d/ was kept three times and created by more
\* than one layer, and d/s/, declared by A and B, was dropped from both below
\* the opaque marker of O
C14_Witness ==
  /\ pc = "done"
  /\ tarFile = Reverse(TarForward)
  /\ names = <<"A", "B", "O">>
  /\ DirLayers(layerInfo, P_d) = {1, 2, 3}
  /\ DirLayers(layerInfo, P_d_s) = {}
  /\ \E w1, w2 \in writes :
       /\ w1.path = OutputOf(P_d) /\ w2.path = OutputOf(P_d)
       /\ w1.kind = "directory" /\ w2.kind = "directory"
       /\ w1.layer # w2.layer
  /\ fs[OutputOf(P_d)].kind = "directory"

\* C15, as stated: after the digest, no two entries that are neither markers
\* nor directories are left at the same path, in one layer or in two.
C15_UniqueSurvivor ==
  Digested =>
    \A i, j \in 1..Len(layerInfo) :
      \A e \in Entries(layerInfo[i]) : \A g \in Entries(layerInfo[j]) :
        (/\ e.whiteout = Empty /\ g.whiteout = Empty
         /\ e.type # "directory" /\ g.type # "directory"
         /\ e.path = g.path) => (i = j /\ e = g)

\* The entries of the layers newer than layer k, as the catalogs hold them
NewerEntries(k) == UNION {Entries(layerInfo[j]) : j \in (k + 1)..Len(layerInfo)}

\* The targets of the markers among some entries, and the paths of the files
\* and links among the others
WhiteoutsOf(entries) == {e.whiteout : e \in {x \in entries : x.whiteout # Empty}}

ClaimedOf(entries) ==
  {e.path : e \in {x \in entries : x.whiteout = Empty /\ x.type \in {"file", "symlink"}}}

\* C16: no step takes a path out of the occlusion sets; and a call of
\* applyDigest for layer k leaves the catalog of every other layer as it is
\* and keeps of layer k exactly the entries that isEntryAllowed accepts
\* against the marker targets and the claimed paths of the layers newer than
\* k, so that no entry of layer k bears on an entry of layer k or of a newer
\* layer.
C16_OlderLayersOnly ==
  [][/\ whiteouts \subseteq whiteouts'
     /\ filePaths \subseteq filePaths'
     /\ digestOrder' # digestOrder =>
          LET k == digestOrder'[Len(digestOrder')]
              newer == NewerEntries(k)
          IN  /\ Len(layerInfo') = Len(layerInfo)
              /\ \A j \in 1..Len(layerInfo) : j # k => layerInfo'[j] = layerInfo[j]
              /\ layerInfo'[k].entries =
                   SelectSeq(layerInfo[k].entries,
                             LAMBDA e : IsEntryAllowed(e, WhiteoutsOf(newer),
                                                       ClaimedOf(newer)))]_vars

\* C16's case: three layers have been digested; the newest has all its
\* entries, an older one holding markers or files of its own has lost some,
\* and both occlusion sets have grown
C16_Witness ==
  /\ Digested
  /\ Len(digestOrder) = 3
  /\ whiteouts # {} /\ filePaths # {}
  /\ Len(layerInfo[3].entries) = Len(KeptOf(names[3]))
  /\ \E k \in 1..2 :
       /\ Len(layerInfo[k].entries) < Len(KeptOf(names[k]))
       /\ \E e \in Entries(layerInfo[k]) : e.type # "directory"

\* C17, as stated: below a layer with a surviving marker that targets a path
\* (not an opaque marker), no entry is left whose directory is that path or
\* lies below it.
C17_WhiteoutHidesSubtree ==
  Digested =>
    \A l \in 1..Len(layerInfo) : \A m \in Entries(layerInfo[l]) :
      (m.whiteout # Empty /\ ~m.isOpaqueWhiteout) =>
        \A i \in 1..(l - 1) : \A e \in Entries(layerInfo[i]) :
          ~AtOrBelow(e.dir, m.whiteout)

====
